---- MODULE Spec2Model ----
(***************************************************************************)
(* A model of scripts/Dataprocessing_script.py: the synthetic insurance    *)
(* data generator, the two CSV writers and the two statistical tests.      *)
(*                                                                         *)
(* The script is a set of independent functions.  Each function is one     *)
(* action; what it calls in numpy, pandas, scipy and os is modelled by the *)
(* operators the action uses, named after the calls.                       *)
(***************************************************************************)
EXTENDS Integers, Sequences, FiniteSets, TLC

VARIABLES
    stream42,   \* the raw draws the Mersenne Twister yields after seed(42)
    mt,         \* numpy's process-wide random state: [seed, pos]
    genRet,     \* outcome of the last generate_insurance_data call
    first,      \* history: the first dataset returned, and the calls that repeat it
    data,       \* the dataset handed to the two statistical tests
    chiRet,     \* outcome of the last preprocessing_script call
    ttRet,      \* outcome of the last gender_analysis call
    fsDir,      \* what the save path is: "absent", "dir" or "file"
    fsWritable, \* whether the process may create and write under the save path
    fsFiles,    \* the files of the save directory, by name
    src,        \* the text file at text_file_path
    ioRet       \* outcome of the last call of one of the two writers

vars ==
    <<stream42, mt, genRet, first, data, chiRet, ttRet,
      fsDir, fsWritable, fsFiles, src, ioRet>>

genVars == <<stream42, mt, genRet, first>>

statVars == <<data, chiRet, ttRet>>

ioVars == <<fsDir, fsWritable, fsFiles, src, ioRet>>

----------------------------------------------------------------------------
(* Bounds                                                                  *)

\* Largest record count asked of the generator.
MaxRecords == 2

\* Largest record count asked of the generator in the runs that interleave
\* it with other users of the process-wide random state.
MaxRerunRecords == 1

\* How many draws other code may take from the process-wide random state
\* after it was last seeded.
MaxForeignDraws == 2

\* Largest dataset handed to the statistical tests.
MaxRows == 3

\* Most data rows of a source text file.
MaxSrcRows == 2

\* Largest dataset handed to save_data_to_csv.
MaxSaveRows == 1

----------------------------------------------------------------------------
(* numpy.random: the process-wide generator                                *)

\* A raw draw.  The generator's 32-bit output is reduced to its residue in
\* this range: np.random.choice over k items takes raw % k, np.random.rand
\* yields the fraction raw / Cardinality(RawVals).
RawVals == 0 .. 2

\* Seeds other code of the process may have set.
ForeignSeeds == {7}

\* np.random.seed(s): the state a seed leads to.
Seed(s) == [seed |-> s, pos |-> 0]

\* The i-th raw draw after seeding with `seed`.  The stream of seed 42 is a
\* fixed but unknown function of the seed (stream42, chosen once in Init);
\* past the part of it the model holds, and for any other seed, some other
\* fixed function.
RawAt(seed, i) ==
    IF seed = 42 /\ i \in DOMAIN stream42
    THEN stream42[i]
    ELSE (seed + i) % Cardinality(RawVals)

\* The state after k draws.
Advance(state, k) == [state EXCEPT !.pos = @ + k]

\* A choice that takes a negative size for an empty one.
np_random_choice_bad(items, size, state) ==
    IF size < 0
    THEN [status |-> "ok", value |-> << >>, state |-> state]
    ELSE [status |-> "ok",
          value  |-> [i \in 1 .. size |->
                        items[(RawAt(state.seed, state.pos + i) % Len(items)) + 1]],
          state  |-> Advance(state, size)]

\* A choice that returns one item too many.
np_random_choice_long(items, size, state) ==
    IF size < 0
    THEN [status |-> "ValueError", value |-> << >>, state |-> state]
    ELSE [status |-> "ok",
          value  |-> [i \in 1 .. size + 1 |->
                        items[(RawAt(state.seed, state.pos + i) % Len(items)) + 1]],
          state  |-> Advance(state, size + 1)]

\* np.random.choice(items, size) from `state`: "ValueError" for a negative
\* size (negative dimensions are not allowed), else `size` items, each
\* items[raw % len(items)], and an empty array for size 0.
np_random_choice(items, size, state) ==
    IF size < 0
    THEN [status |-> "ValueError", value |-> << >>, state |-> state]
    ELSE [status |-> "ok",
          value  |-> [i \in 1 .. size |->
                        items[(RawAt(state.seed, state.pos + i) % Len(items)) + 1]],
          state  |-> Advance(state, size)]

\* np.random.rand(): the next raw draw, read as raw / Cardinality(RawVals).
np_random_rand(state) == RawAt(state.seed, state.pos + 1)

----------------------------------------------------------------------------
(* generate_insurance_data                                                 *)

provinces == <<"Province_A", "Province_B", "Province_C">>

genders == <<"Male", "Female">>

\* Claim rates, in percent.
claim_rates_province(province) ==
    CASE province = "Province_A" -> 10
      [] province = "Province_B" -> 90
      [] province = "Province_C" -> 20

claim_rates_gender(gender) ==
    CASE gender = "Male"   -> 60
      [] gender = "Female" -> 20

\* draw < rate, for a draw raw / Cardinality(RawVals) and a rate in percent.
Below(raw, rate) == 100 * raw < rate * Cardinality(RawVals)

\* A generator that draws from the state it finds.
SeededState_unseeded(before) == before

\* The state the generator draws from: the one np.random.seed(42) sets,
\* whatever the state was.
SeededState(before) == Seed(42)

\* A claim decided by the rate of the Province.
Claim_by_province(province, gender, raw) ==
    IF Below(raw, claim_rates_province(province)) THEN 1 ELSE 0

\* One element of the `claims` list comprehension: the rate is the one of
\* the Gender, the Province is not looked at.
Claim(province, gender, raw) ==
    IF Below(raw, claim_rates_gender(gender)) THEN 1 ELSE 0

\* pd.DataFrame({'Province': ..., 'Gender': ..., 'Claimed': ...}): one record
\* per element of the columns.
DataFrame(province_choices, gender_choices, claims) ==
    [i \in 1 .. Len(province_choices) |->
        [Province |-> province_choices[i],
         Gender   |-> gender_choices[i],
         Claimed  |-> claims[i]]]

\* The whole call from random state `before`: its outcome, the dataset,
\* the draws of the list comprehension and the random state it leaves.
generate_insurance_data(num_records, before) ==
    LET s0 == SeededState(before)
        pc == np_random_choice(provinces, num_records, s0)
        gc == np_random_choice(genders, num_records, pc.state)
        s2 == gc.state
        draws == [i \in 1 .. Len(gc.value) |-> np_random_rand(Advance(s2, i - 1))]
        claims == [i \in 1 .. Len(gc.value) |->
                      Claim(pc.value[i], gc.value[i], draws[i])]
    IN  IF pc.status # "ok"
        THEN [status |-> pc.status, data |-> << >>, draws |-> << >>, state |-> s0]
        ELSE [status |-> "ok",
              data   |-> DataFrame(pc.value, gc.value, claims),
              draws  |-> draws,
              state  |-> Advance(s2, Len(gc.value))]

----------------------------------------------------------------------------
(* Datasets and the outcomes of the statistical tests, before any call     *)

NoTable == [index |-> << >>, columns |-> << >>, values |-> << >>]

NoChi ==
    [op |-> "none", status |-> "none", chi2 |-> [num |-> 0, den |-> 1],
     p |-> "none", table |-> NoTable]

NoT == [op |-> "none", status |-> "none", t |-> "none", p |-> "none"]

StatIdle == data = << >> /\ chiRet = NoChi /\ ttRet = NoT

----------------------------------------------------------------------------
(* Files                                                                   *)

\* A text file of delimited lines: each line is its fields, and a field is
\* its text and whether it stands in double quotes.
NoFile == [exists |-> FALSE, lines |-> << >>]

\* The names a caller gives the output file: the two defaults.
FileNames == {"insurance_data.csv", "insurance_text_data.csv"}

NoIO ==
    [op |-> "none", status |-> "none", filename |-> "", data |-> << >>,
     printed |-> FALSE,
     before |-> [dir |-> "absent", files |-> [f \in FileNames |-> NoFile]]]

IoIdle ==
    /\ fsDir = "absent"
    /\ fsWritable = TRUE
    /\ fsFiles = [f \in FileNames |-> NoFile]
    /\ src = NoFile
    /\ ioRet = NoIO

----------------------------------------------------------------------------
(* The generator's runs                                                    *)

NoCall ==
    [op |-> "none", n |-> 0, status |-> "none", data |-> << >>, draws |-> << >>]

\* Nothing generated yet.
NotYet == [runs |-> 0, n |-> 0, data |-> << >>, before |-> Seed(42), differs |-> FALSE]

\* The random states a call may find: freshly seeded by this or other code,
\* or some draws later.
RandomStates ==
    {Advance(Seed(s), k) : s \in {42} \cup ForeignSeeds, k \in 0 .. MaxForeignDraws}

\* generate_insurance_data(n), called by a caller.
Generate(n) ==
    LET r == generate_insurance_data(n, mt)
    IN  /\ genRet' = [op |-> "generate_insurance_data", n |-> n,
                      status |-> r.status, data |-> r.data, draws |-> r.draws]
        /\ mt' = r.state
        /\ UNCHANGED <<stream42, statVars, ioVars>>

\* History of the calls: the first dataset returned, the record count and
\* the random state it was asked with, and whether that count was asked
\* again, from another random state.
Track(n) ==
    first' = IF first.runs = 0
             THEN [runs |-> 1, n |-> n, data |-> genRet'.data, before |-> mt,
                   differs |-> FALSE]
             ELSE IF first.n = n
             THEN [first EXCEPT !.runs = 2, !.differs = @ \/ mt # first.before]
             ELSE first

\* Other code of the process seeds the process-wide generator.
ForeignSeed(s) ==
    /\ mt' = Seed(s)
    /\ UNCHANGED <<stream42, genRet, first, statVars, ioVars>>

\* Other code of the process draws from the process-wide generator.
ForeignDraw ==
    /\ mt.pos < MaxForeignDraws
    /\ mt' = Advance(mt, 1)
    /\ UNCHANGED <<stream42, genRet, first, statVars, ioVars>>

InitGen ==
    /\ stream42 \in [1 .. 3 * MaxRecords -> RawVals]
    /\ mt = Seed(7)
    /\ genRet = NoCall
    /\ first = NotYet
    /\ StatIdle
    /\ IoIdle

NextGen == \E n \in -1 .. MaxRecords : Generate(n) /\ UNCHANGED first

\* The generator called with any record count, valid or not.
SpecGen == InitGen /\ [][NextGen]_vars

InitRerun ==
    /\ stream42 \in [1 .. 3 * MaxRerunRecords -> RawVals]
    /\ mt \in RandomStates
    /\ genRet = NoCall
    /\ first = NotYet
    /\ StatIdle
    /\ IoIdle

NextRerun ==
    \/ \E n \in 0 .. MaxRerunRecords : Generate(n) /\ Track(n)
    \/ \E s \in ForeignSeeds : ForeignSeed(s)
    \/ ForeignDraw

\* The generator called again and again, other code seeding and drawing
\* from the process-wide generator in between.
SpecRerun == InitRerun /\ [][NextRerun]_vars

----------------------------------------------------------------------------
(* Claims about the generator                                              *)

Generated == genRet.op = "generate_insurance_data"

\* C1: for every record count N >= 1 the generator returns a dataset of
\* exactly N records, each with Province in the three provinces, Gender in
\* the two genders and Claimed 0 or 1.
C1_SizeAndDomains ==
    (Generated /\ genRet.n >= 1) =>
        /\ genRet.status = "ok"
        /\ Len(genRet.data) = genRet.n
        /\ \A i \in 1 .. Len(genRet.data) :
              /\ genRet.data[i].Province \in {"Province_A", "Province_B", "Province_C"}
              /\ genRet.data[i].Gender \in {"Male", "Female"}
              /\ genRet.data[i].Claimed \in {0, 1}

\* A call for two records or more has returned.
C1_Witness == Generated /\ genRet.n >= 2 /\ genRet.status = "ok"

\* C2: every dataset the generator returns for the record count of its first
\* call equals, in row order and in every value, the dataset of that first
\* call, whatever the process-wide random state was before the call and
\* whatever seeded or drew from it in between.
C2_Deterministic ==
    (Generated /\ genRet.status = "ok" /\ first.runs >= 1 /\ genRet.n = first.n)
        => genRet.data = first.data

\* A count has been generated twice, the second time from a random state
\* other than the first time's.
C2_Witness ==
    /\ Generated /\ genRet.status = "ok" /\ genRet.n >= 1
    /\ genRet.n = first.n /\ first.runs = 2 /\ first.differs

\* C3, as claimed: a zero or negative record count fails with an
\* invalid-argument error.
C3_Original ==
    (Generated /\ genRet.n <= 0) => genRet.status \in {"InvalidArgument", "ValueError"}

\* C3, amended: a negative record count fails with numpy's ValueError and
\* returns no dataset; a zero record count does not fail and returns the
\* empty dataset.
C3_Amended ==
    /\ (Generated /\ genRet.n < 0) =>
          (genRet.status = "ValueError" /\ genRet.data = << >>)
    /\ (Generated /\ genRet.n = 0) =>
          (genRet.status = "ok" /\ genRet.data = << >>)

\* A call for zero records has returned.
C3_Witness == Generated /\ genRet.n = 0 /\ genRet.status = "ok"

----------------------------------------------------------------------------
(* preprocessing_script: pd.crosstab and scipy's chi2_contingency          *)

RECURSIVE SumSeq(_)
SumSeq(q) == IF q = << >> THEN 0 ELSE Head(q) + SumSeq(Tail(q))

RECURSIVE ProdSeq(_)
ProdSeq(q) == IF q = << >> THEN 1 ELSE Head(q) * ProdSeq(Tail(q))

Abs(x) == IF x < 0 THEN -x ELSE x

Min(x, y) == IF x < y THEN x ELSE y

\* The values of the Claimed column, in sorted order.
claimed_values == <<0, 1>>

\* A count that does not look at the Province.
Count_any_province(df, province, claimed) ==
    Cardinality({i \in 1 .. Len(df) : df[i].Claimed = claimed})

\* One cell of the cross-tabulation: the records of a Province with a
\* Claimed value.
Count(df, province, claimed) ==
    Cardinality({i \in 1 .. Len(df) :
                    df[i].Province = province /\ df[i].Claimed = claimed})

\* Column labels for every Claimed value, occurring or not.
CrosstabColumns_all(df) == claimed_values

\* The column labels of pd.crosstab: the Claimed values that occur in the
\* data, sorted.
CrosstabColumns(df) ==
    SelectSeq(claimed_values, LAMBDA c : \E i \in 1 .. Len(df) : df[i].Claimed = c)

\* pd.crosstab(data['Province'], data['Claimed']): a row per Province that
\* occurs in the data and a column per Claimed value that occurs, both
\* sorted; each cell counts the records with that pair.
crosstab(df) ==
    LET index   == SelectSeq(provinces,
                             LAMBDA q : \E i \in 1 .. Len(df) : df[i].Province = q)
        columns == CrosstabColumns(df)
    IN  [index   |-> index,
         columns |-> columns,
         values  |-> [i \in 1 .. Len(index) |->
                        [j \in 1 .. Len(columns) |->
                            Count(df, index[i], columns[j])]]]

NumRows(observed) == Len(observed)

NumCols(observed) == IF observed = << >> THEN 0 ELSE Len(observed[1])

RowSums(observed) == [i \in 1 .. NumRows(observed) |-> SumSeq(observed[i])]

ColSums(observed) ==
    [j \in 1 .. NumCols(observed) |->
        SumSeq([i \in 1 .. NumRows(observed) |-> observed[i][j]])]

\* scipy's expected_freq, times the grand total: the expected frequency of
\* cell (i, j) is RowSums[i] * ColSums[j] / total.
ExpectedTimesTotal(observed, i, j) == RowSums(observed)[i] * ColSums(observed)[j]

\* chi2_contingency(observed), correction=True: ValueError for a negative
\* cell, for a table of size 0 and for a zero expected frequency; statistic
\* 0 and p-value 1 when there are no degrees of freedom; else Pearson's
\* statistic, with Yates' correction when there is one degree of freedom.
\* The statistic is the exact fraction num / den.
chi2_contingency(observed) ==
    LET nr    == NumRows(observed)
        nc    == NumCols(observed)
        R     == RowSums(observed)
        C     == ColSums(observed)
        total == SumSeq(R)
        dof   == nr * nc - (nr + nc) + 2 - 1
        \* |expected - observed| in units of 1 / (2 * total)
        diff2(i, j) == 2 * Abs(R[i] * C[j] - total * observed[i][j])
        adj(i, j) == IF dof = 1 THEN diff2(i, j) - Min(total, diff2(i, j))
                     ELSE diff2(i, j)
        all   == ProdSeq(R) * ProdSeq(C)
        num   == SumSeq([k \in 1 .. nr * nc |->
                    LET i == ((k - 1) \div nc) + 1
                        j == ((k - 1) % nc) + 1
                    IN  adj(i, j) * adj(i, j) * (all \div (R[i] * C[j]))])
    IN  IF \E i \in 1 .. nr : \E j \in 1 .. nc : observed[i][j] < 0
        THEN [status |-> "ValueError", chi2 |-> [num |-> 0, den |-> 1], p |-> "none"]
        ELSE IF nr * nc = 0
        THEN [status |-> "ValueError", chi2 |-> [num |-> 0, den |-> 1], p |-> "none"]
        ELSE IF \E i \in 1 .. nr : \E j \in 1 .. nc :
                    ExpectedTimesTotal(observed, i, j) = 0
        THEN [status |-> "ValueError", chi2 |-> [num |-> 0, den |-> 1], p |-> "none"]
        ELSE IF dof = 0
        THEN [status |-> "ok", chi2 |-> [num |-> 0, den |-> 1], p |-> "1.0"]
        ELSE [status |-> "ok", chi2 |-> [num |-> num, den |-> 4 * total * all],
              p |-> "chi2.sf(statistic, dof)"]

\* The whole call: the error of chi2_contingency reaches the caller, and
\* then nothing is returned.
preprocessing_script(df) ==
    LET contingency_table == crosstab(df)
        r == chi2_contingency(contingency_table.values)
    IN  [op |-> "preprocessing_script", status |-> r.status, chi2 |-> r.chi2,
         p |-> r.p,
         table |-> IF r.status = "ok" THEN contingency_table ELSE NoTable]

----------------------------------------------------------------------------
(* gender_analysis: scipy's ttest_ind with equal_var=False                 *)

\* data[data['Gender'] == gender]['Claimed']
ClaimsOf(df, gender) ==
    LET rows == SelectSeq(df, LAMBDA r : r.Gender = gender)
    IN  [i \in 1 .. Len(rows) |-> rows[i].Claimed]

\* A t-test that rejects an empty sample.
ttest_ind_strict(a, b) ==
    IF Len(a) = 0 \/ Len(b) = 0
    THEN [status |-> "ValueError", t |-> "none", p |-> "none"]
    ELSE [status |-> "ok", t |-> "nan", p |-> "nan"]

\* ttest_ind(a, b, equal_var=False) on 0/1 samples.  An empty sample gives
\* (nan, nan), and so does a sample of one value, whose variance (ddof=1) is
\* nan; no error is raised.  With both variances zero the denominator is
\* zero: t is nan for equal means and infinite otherwise (p-value 0).  Else t
\* is finite with the sign of mean(a) - mean(b).
ttest_ind(a, b) ==
    LET n1 == Len(a)
        n2 == Len(b)
        s1 == SumSeq(a)
        s2 == SumSeq(b)
        \* mean(a) - mean(b), times n1 * n2
        d  == s1 * n2 - s2 * n1
        \* the variances are zero exactly when the samples are constant
        constant1 == s1 = 0 \/ s1 = n1
        constant2 == s2 = 0 \/ s2 = n2
    IN  IF n1 = 0 \/ n2 = 0
        THEN [status |-> "ok", t |-> "nan", p |-> "nan"]
        ELSE IF n1 = 1 \/ n2 = 1
        THEN [status |-> "ok", t |-> "nan", p |-> "nan"]
        ELSE IF constant1 /\ constant2
        THEN IF d = 0 THEN [status |-> "ok", t |-> "nan", p |-> "nan"]
             ELSE [status |-> "ok", t |-> IF d > 0 THEN "+inf" ELSE "-inf",
                   p |-> "0.0"]
        ELSE [status |-> "ok",
              t |-> IF d > 0 THEN "positive" ELSE IF d < 0 THEN "negative" ELSE "0.0",
              p |-> "2 * t.sf(|t|, df)"]

gender_analysis(df) ==
    LET male_claims   == ClaimsOf(df, "Male")
        female_claims == ClaimsOf(df, "Female")
        r == ttest_ind(male_claims, female_claims)
    IN  [op |-> "gender_analysis", status |-> r.status, t |-> r.t, p |-> r.p]

----------------------------------------------------------------------------
(* The statistical tests' runs                                             *)

Records ==
    [Province : {"Province_A", "Province_B", "Province_C"},
     Gender   : {"Male", "Female"},
     Claimed  : {0, 1}]

Datasets == UNION {[1 .. n -> Records] : n \in 0 .. MaxRows}

GenIdle ==
    /\ stream42 = << >>
    /\ mt = Seed(42)
    /\ genRet = NoCall
    /\ first = NotYet

InitStats ==
    /\ data \in Datasets
    /\ chiRet = NoChi
    /\ ttRet = NoT
    /\ GenIdle
    /\ IoIdle

\* preprocessing_script(data), called by a caller.
Preprocess ==
    /\ chiRet' = preprocessing_script(data)
    /\ UNCHANGED <<data, ttRet, genVars, ioVars>>

\* gender_analysis(data), called by a caller.
GenderAnalysis ==
    /\ ttRet' = gender_analysis(data)
    /\ UNCHANGED <<data, chiRet, genVars, ioVars>>

NextStats == Preprocess \/ GenderAnalysis

\* The two tests called, in any order, on any dataset.
SpecStats == InitStats /\ [][NextStats]_vars

----------------------------------------------------------------------------
(* Claims about the statistical tests                                      *)

ChiCalled == chiRet.op = "preprocessing_script"

TCalled == ttRet.op = "gender_analysis"

RecordsOf(province) == {i \in 1 .. Len(data) : data[i].Province = province}

\* C4: the contingency table preprocessing_script returns has only
\* non-negative integer cells, its cells sum to the number of records of the
\* dataset, and each row sums to the number of records of its Province.
C4_TableCounts ==
    (ChiCalled /\ chiRet.status = "ok") =>
        LET t == chiRet.table
        IN  /\ \A i \in 1 .. Len(t.index) : \A j \in 1 .. Len(t.columns) :
                  t.values[i][j] \in Nat
            /\ SumSeq([i \in 1 .. Len(t.index) |-> SumSeq(t.values[i])]) = Len(data)
            /\ \A i \in 1 .. Len(t.index) :
                  SumSeq(t.values[i]) = Cardinality(RecordsOf(t.index[i]))

\* A table of at least two rows and two columns has been returned.
C4_Witness ==
    /\ ChiCalled /\ chiRet.status = "ok"
    /\ Len(chiRet.table.index) >= 2 /\ Len(chiRet.table.columns) = 2

\* Some Province of the dataset has only records with Claimed 0.
HasAllZeroProvince ==
    \E q \in {"Province_A", "Province_B", "Province_C"} :
        /\ RecordsOf(q) # {}
        /\ \A i \in RecordsOf(q) : data[i].Claimed = 0

\* C5, as claimed: with a Province whose Claimed values are all zero, the
\* chi-squared test raises ValueError.
C5_Original == (ChiCalled /\ HasAllZeroProvince) => chiRet.status = "ValueError"

\* C5, amended: with a Province whose Claimed values are all zero the test
\* raises nothing and returns its statistic, p-value and table; it raises
\* ValueError exactly when the dataset is empty.
C5_Amended ==
    ChiCalled =>
        /\ HasAllZeroProvince =>
              (chiRet.status = "ok" /\ chiRet.table = crosstab(data))
        /\ chiRet.status = "ValueError" <=> data = << >>
        /\ chiRet.status \in {"ok", "ValueError"}

\* The test has returned for a dataset with an all-zero Province beside a
\* Province with a claim.
C5_Witness ==
    /\ ChiCalled /\ HasAllZeroProvince /\ chiRet.status = "ok"
    /\ \E i \in 1 .. Len(data) : data[i].Claimed = 1

\* One of the two Gender groups of the dataset is empty.
HasEmptyGroup ==
    \/ \A i \in 1 .. Len(data) : data[i].Gender # "Male"
    \/ \A i \in 1 .. Len(data) : data[i].Gender # "Female"

\* C6, as claimed: with an empty Gender group, gender_analysis fails with a
\* ValueError.
C6_Original == (TCalled /\ HasEmptyGroup) => ttRet.status = "ValueError"

\* C6, amended: with an empty Gender group, gender_analysis raises nothing
\* and returns the pair (nan, nan).
C6_Amended ==
    (TCalled /\ HasEmptyGroup) =>
        (ttRet.status = "ok" /\ ttRet.t = "nan" /\ ttRet.p = "nan")

\* gender_analysis has returned for a dataset of several records, all of one
\* Gender.
C6_Witness ==
    /\ TCalled /\ HasEmptyGroup /\ Len(data) >= 2 /\ ttRet.status = "ok"

----------------------------------------------------------------------------
(* pandas: read_csv and DataFrame.to_csv                                   *)

Max(x, y) == IF x < y THEN y ELSE x

\* text.split(delimiter), for the texts of the model.
SplitOn(text, delimiter) ==
    IF text = "a,b" /\ delimiter = "," THEN <<"a", "b">> ELSE <<text>>

\* The fields a reader with `delimiter` finds in a line: a quoted field is
\* one field, an unquoted one ends at each delimiter in it.
RECURSIVE Tokenize(_, _)
Tokenize(line, delimiter) ==
    IF line = << >> THEN << >>
    ELSE (IF Head(line).quoted THEN <<Head(line).text>>
          ELSE SplitOn(Head(line).text, delimiter))
         \o Tokenize(Tail(line), delimiter)

\* A line with nothing on it, which read_csv skips (skip_blank_lines=True).
IsBlank(line) == Len(line) = 1 /\ ~line[1].quoted /\ line[1].text = ""

\* The texts read_csv takes for a missing value, among the model's.
IsNA(text) == text = ""

\* The texts that parse as an integer, and the integer's canonical text.
IsInt(text) == text \in {"7", "07"}

IntCanon(text) == "7"

\* The texts that parse as a float but not as an integer.
IsFloat(text) == text = "7.0"

\* repr(float(v)) for an integer or float text.
FloatRepr(text) == "7.0"

NaN == [t |-> "nan", s |-> ""]

\* The dtype read_csv infers for a column of texts.
InferDtype(texts) ==
    IF Len(texts) = 0 THEN "object"
    ELSE IF \A k \in 1 .. Len(texts) : IsInt(texts[k]) THEN "int64"
    ELSE IF \A k \in 1 .. Len(texts) :
                IsInt(texts[k]) \/ IsFloat(texts[k]) \/ IsNA(texts[k])
    THEN "float64"
    ELSE "object"

\* The value read_csv makes of a text in a column of a dtype.
ParseCell(text, dtype) ==
    IF IsNA(text) THEN NaN
    ELSE IF dtype = "int64" THEN [t |-> "int", s |-> IntCanon(text)]
    ELSE IF dtype = "float64" THEN [t |-> "float", s |-> FloatRepr(text)]
    ELSE [t |-> "str", s |-> text]

\* The name read_csv gives a column whose name stood k times before it on
\* the header line; the headers of the model repeat a name once at most.
DupName(name, k) ==
    IF k = 0 THEN name
    ELSE IF name = "a" THEN "a.1"
    ELSE "b.1"

MangleDupes(header) ==
    [j \in 1 .. Len(header) |->
        DupName(header[j],
                Cardinality({i \in 1 .. j - 1 : header[i] = header[j]}))]

NoFrame == [columns |-> << >>, dtypes |-> << >>, rows |-> << >>, index |-> << >>]

\* pd.read_csv(file, delimiter=...), C engine.  A missing file and a file
\* with no line to take the header from are errors.  The first non-blank
\* line is the header.  The first data line sets the width when it is longer
\* than the header, and its surplus leading fields become the index; a later
\* line longer than the width is a ParserError, a shorter one is filled with
\* missing values.
read_csv(file, delimiter) ==
    LET all     == [k \in 1 .. Len(file.lines) |-> Tokenize(file.lines[k], delimiter)]
        kept    == SelectSeq([k \in 1 .. Len(file.lines) |->
                                 [blank |-> IsBlank(file.lines[k]), fields |-> all[k]]],
                             LAMBDA l : ~l.blank)
        header  == kept[1].fields
        raw     == [k \in 1 .. Len(kept) - 1 |-> kept[k + 1].fields]
        h       == Len(header)
        w       == IF raw = << >> THEN h ELSE Max(h, Len(raw[1]))
        leading == w - h
        cell(k, j) == IF j <= Len(raw[k]) THEN raw[k][j] ELSE ""
        column(j)  == [k \in 1 .. Len(raw) |-> cell(k, leading + j)]
        dtypes  == [j \in 1 .. h |-> InferDtype(column(j))]
    IN  IF ~file.exists
        THEN [status |-> "FileNotFoundError", frame |-> NoFrame]
        ELSE IF kept = << >>
        THEN [status |-> "EmptyDataError", frame |-> NoFrame]
        ELSE IF \E k \in 2 .. Len(raw) : Len(raw[k]) > w
        THEN [status |-> "ParserError", frame |-> NoFrame]
        ELSE [status |-> "ok",
              frame  |-> [columns |-> MangleDupes(header),
                          dtypes  |-> dtypes,
                          rows    |-> [k \in 1 .. Len(raw) |->
                                        [j \in 1 .. h |->
                                            ParseCell(cell(k, leading + j), dtypes[j])]],
                          index   |-> [k \in 1 .. Len(raw) |->
                                        [j \in 1 .. leading |-> cell(k, j)]]]]

\* A writer that never quotes.
NeedsQuote_never(text) == FALSE

\* Whether csv.writer puts a field in quotes (QUOTE_MINIMAL): when it holds
\* the delimiter.
NeedsQuote(text) == Len(SplitOn(text, ",")) > 1

\* One written line: a line of a single empty field is written as "".
WriteLine(texts) ==
    [j \in 1 .. Len(texts) |->
        [text   |-> texts[j],
         quoted |-> NeedsQuote(texts[j]) \/ (Len(texts) = 1 /\ texts[j] = "")]]

\* frame.to_csv(path, index=False): the header line, then a line per row, the
\* index left out, a missing value written as the empty text.
to_csv(frame) ==
    [exists |-> TRUE,
     lines  |-> <<WriteLine(frame.columns)>> \o
                [k \in 1 .. Len(frame.rows) |->
                    WriteLine([j \in 1 .. Len(frame.rows[k]) |-> frame.rows[k][j].s])]]

\* The DataFrame of a generated dataset.
DatasetFrame(df) ==
    [columns |-> <<"Province", "Gender", "Claimed">>,
     dtypes  |-> <<"object", "object", "int64">>,
     rows    |-> [k \in 1 .. Len(df) |->
                    <<[t |-> "str", s |-> df[k].Province],
                      [t |-> "str", s |-> df[k].Gender],
                      [t |-> "int", s |-> IF df[k].Claimed = 1 THEN "1" ELSE "0"]>>],
     index   |-> [k \in 1 .. Len(df) |-> << >>]]

----------------------------------------------------------------------------
(* os.makedirs, and the write of a file                                    *)

\* os.makedirs(save_path, exist_ok=True): nothing to do for a directory, a
\* FileExistsError for a path that is a file, else the directory is made if
\* the process may.
os_makedirs(dir, writable) ==
    IF dir = "dir" THEN [status |-> "ok", dir |-> dir]
    ELSE IF dir = "file" THEN [status |-> "FileExistsError", dir |-> dir]
    ELSE IF writable THEN [status |-> "ok", dir |-> "dir"]
    ELSE [status |-> "PermissionError", dir |-> dir]

\* A write that appends to what the file held.
Written_append(old, new) ==
    [exists |-> TRUE, lines |-> old.lines \o new.lines]

\* What a file holds after text is written to it in mode 'w'.
Written(old, new) == new

\* frame.to_csv(os.path.join(save_path, filename), index=False) in a
\* directory that exists.
WriteCsv(frame, filename, writable, files) ==
    IF writable
    THEN [status |-> "ok",
          files  |-> [files EXCEPT ![filename] = Written(@, to_csv(frame))]]
    ELSE [status |-> "PermissionError", files |-> files]

----------------------------------------------------------------------------
(* save_data_to_csv and save_insurance_data_to_csv                         *)

\* The save: the directory is made if need be, then the file is written; the
\* first error ends the call.
save_data_to_csv(frame, filename, dir, writable, files) ==
    LET m == os_makedirs(dir, writable)
        w == WriteCsv(frame, filename, writable, files)
    IN  IF m.status # "ok"
        THEN [status |-> m.status, dir |-> m.dir, files |-> files]
        ELSE [status |-> w.status, dir |-> m.dir, files |-> w.files]

\* A converter that makes the directory before it reads the source.
save_insurance_data_to_csv_mkdir_first(source, csv_file_name, dir, writable, files) ==
    LET m  == os_makedirs(dir, writable)
        df == read_csv(source, "|")
        w  == WriteCsv(df.frame, csv_file_name, writable, files)
    IN  IF m.status # "ok"
        THEN [status |-> m.status, dir |-> m.dir, files |-> files, printed |-> FALSE]
        ELSE IF df.status # "ok"
        THEN [status |-> df.status, dir |-> m.dir, files |-> files, printed |-> FALSE]
        ELSE [status |-> w.status, dir |-> m.dir, files |-> w.files,
              printed |-> w.status = "ok"]

\* The converter: the source is read first, then the directory is made,
\* then the file is written and its path printed; the first error ends the
\* call.
save_insurance_data_to_csv(source, csv_file_name, dir, writable, files) ==
    LET df == read_csv(source, "|")
        m  == os_makedirs(dir, writable)
        w  == WriteCsv(df.frame, csv_file_name, writable, files)
    IN  IF df.status # "ok"
        THEN [status |-> df.status, dir |-> dir, files |-> files, printed |-> FALSE]
        ELSE IF m.status # "ok"
        THEN [status |-> m.status, dir |-> m.dir, files |-> files, printed |-> FALSE]
        ELSE [status |-> w.status, dir |-> m.dir, files |-> w.files,
              printed |-> w.status = "ok"]

----------------------------------------------------------------------------
(* The writers' runs                                                       *)

\* The records of the datasets saved.
SaveRecords ==
    {[Province |-> "Province_A", Gender |-> "Male", Claimed |-> 1],
     [Province |-> "Province_C", Gender |-> "Female", Claimed |-> 0]}

SaveDatasets == UNION {[1 .. n -> SaveRecords] : n \in 0 .. MaxSaveRows}

\* A file left in the save directory by an earlier run.
StaleFile ==
    [exists |-> TRUE,
     lines  |-> <<WriteLine(<<"old">>), WriteLine(<<"7">>), WriteLine(<<"7">>)>>]

\* The states of the save path a call may find.
InitFs ==
    /\ fsDir \in {"absent", "dir", "file"}
    /\ fsWritable \in BOOLEAN
    /\ fsFiles \in [FileNames -> {NoFile, StaleFile}]
    /\ fsDir # "dir" => fsFiles = [f \in FileNames |-> NoFile]

Before == [dir |-> fsDir, files |-> fsFiles]

\* save_data_to_csv(data, filename), called by a caller.
SaveData(df, filename) ==
    LET r == save_data_to_csv(DatasetFrame(df), filename, fsDir, fsWritable, fsFiles)
    IN  /\ fsDir' = r.dir
        /\ fsFiles' = r.files
        /\ ioRet' = [op |-> "save_data_to_csv", status |-> r.status,
                     filename |-> filename, data |-> df, printed |-> FALSE,
                     before |-> Before]
        /\ UNCHANGED <<fsWritable, src, genVars, statVars>>

\* save_insurance_data_to_csv(text_file_path, csv_file_name), called by a
\* caller.
Convert(csv_file_name) ==
    LET r == save_insurance_data_to_csv(src, csv_file_name, fsDir, fsWritable, fsFiles)
    IN  /\ fsDir' = r.dir
        /\ fsFiles' = r.files
        /\ ioRet' = [op |-> "save_insurance_data_to_csv", status |-> r.status,
                     filename |-> csv_file_name, data |-> << >>,
                     printed |-> r.printed, before |-> Before]
        /\ UNCHANGED <<fsWritable, src, genVars, statVars>>

InitSave ==
    /\ InitFs
    /\ src = NoFile
    /\ ioRet = NoIO
    /\ GenIdle
    /\ StatIdle

NextSave == \E df \in SaveDatasets, filename \in FileNames : SaveData(df, filename)

\* Datasets saved one after the other, under either file name.
SpecSave == InitSave /\ [][NextSave]_vars

\* The header lines and the cell texts of the source files.
Headers == {<<"a">>, <<"a", "b">>, <<"a", "a">>}

CellTexts == {"7", "07", "", "a,b"}

\* A source line as it stands in a pipe-delimited file: no text of the model
\* holds a pipe, so no field needs quotes.
SrcLine(texts) == [j \in 1 .. Len(texts) |-> [text |-> texts[j], quoted |-> FALSE]]

FileOf(header, rows) ==
    [exists |-> TRUE,
     lines  |-> <<SrcLine(header)>> \o [k \in 1 .. Len(rows) |-> SrcLine(rows[k])]]

\* A file with one field more, or one field less, on its k-th data line.
Longer(file, k) ==
    [file EXCEPT !.lines[k + 1] = @ \o SrcLine(<<"7">>)]

Shorter(file, k) ==
    [file EXCEPT !.lines[k + 1] = SubSeq(@, 1, Len(@) - 1)]

EmptyFile == [exists |-> TRUE, lines |-> << >>]

\* The tables of up to MaxSrcRows rows under a header.
TablesOf(header) ==
    UNION {[1 .. n -> [1 .. Len(header) -> CellTexts]] : n \in 0 .. MaxSrcRows}

\* The ways a file departs from the uniform one: not at all, or by one line
\* that is longer or shorter than the header line.
Departures(header, rows) ==
    {<<"uniform", 0>>}
    \cup {<<"longer", k>> : k \in 1 .. Len(rows)}
    \cup {<<"shorter", k>> : k \in {i \in 1 .. Len(rows) : Len(header) >= 2}}

SourceFile(header, rows, departure) ==
    CASE departure[1] = "uniform" -> FileOf(header, rows)
      [] departure[1] = "longer"  -> Longer(FileOf(header, rows), departure[2])
      [] departure[1] = "shorter" -> Shorter(FileOf(header, rows), departure[2])

\* The source files: none, an empty one, the uniform and the ragged ones.
InitSrc ==
    \/ src \in {NoFile, EmptyFile}
    \/ \E h \in Headers : \E rows \in TablesOf(h) :
          \E departure \in Departures(h, rows) :
              src = SourceFile(h, rows, departure)

ConvertedName == "insurance_text_data.csv"

InitConvert ==
    /\ InitSrc
    /\ fsDir \in {"absent", "dir"}
    /\ fsWritable \in BOOLEAN
    /\ fsFiles \in {[f \in FileNames |-> IF f = ConvertedName THEN old ELSE NoFile] :
                        old \in {NoFile, StaleFile}}
    /\ fsDir # "dir" => fsFiles = [f \in FileNames |-> NoFile]
    /\ ioRet = NoIO
    /\ GenIdle
    /\ StatIdle

NextConvert == Convert(ConvertedName)

\* The converter called on any source file, under its default output name.
SpecConvert == InitConvert /\ [][NextConvert]_vars

----------------------------------------------------------------------------
(* Claims about the writers                                                *)

Saved == ioRet.op = "save_data_to_csv"

Converted == ioRet.op = "save_insurance_data_to_csv"

\* C8: save_data_to_csv succeeds whenever the save path is absent or a
\* directory and the process may write there; after a successful call the
\* directory exists, the target file holds exactly the serialization of the
\* data, whatever it held, and the other files are as they were; and a call
\* that finds the state a save of the same data left leaves it as it is.
C8_SaveOverwrites ==
    Saved =>
        /\ (ioRet.before.dir # "file" /\ fsWritable) => ioRet.status = "ok"
        /\ ioRet.status = "ok" =>
              /\ fsDir = "dir"
              /\ fsFiles[ioRet.filename] = to_csv(DatasetFrame(ioRet.data))
              /\ \A f \in FileNames \ {ioRet.filename} :
                    fsFiles[f] = ioRet.before.files[f]
              /\ Len(fsFiles[ioRet.filename].lines) = Len(ioRet.data) + 1
        /\ (/\ ioRet.status = "ok"
            /\ ioRet.before.dir = "dir"
            /\ ioRet.before.files[ioRet.filename] = to_csv(DatasetFrame(ioRet.data)))
           => fsFiles = ioRet.before.files

\* A save has replaced a file that held something else, in a directory that
\* existed.
C8_Witness ==
    /\ Saved /\ ioRet.status = "ok"
    /\ ioRet.before.dir = "dir"
    /\ ioRet.before.files[ioRet.filename].exists
    /\ ioRet.before.files[ioRet.filename] # fsFiles[ioRet.filename]
    /\ Len(ioRet.data) >= 1

\* A source file is well-formed when it has a header line and as many
\* fields on every line as on the header line.
WellFormed(file) ==
    /\ file.exists
    /\ Len(file.lines) >= 1
    /\ \A k \in 1 .. Len(file.lines) : Len(file.lines[k]) = Len(file.lines[1])

\* The lines of a file that are not blank.
NonBlank(file) == SelectSeq(file.lines, LAMBDA l : ~IsBlank(l))

\* C7: for a well-formed source, a save path that can be written and no
\* error, the written file read as comma-delimited is the table the source
\* is when read as pipe-delimited: the same column names in the same order,
\* the same rows in the same order with the same values; it has a line per
\* non-blank line of the source and, on each, a field per column, none added.
C7_RoundTrip ==
    (Converted /\ WellFormed(src) /\ fsWritable) =>
        LET out == fsFiles[ioRet.filename]
        IN  /\ ioRet.status = "ok"
            /\ read_csv(out, ",") = read_csv(src, "|")
            /\ Len(out.lines) = Len(NonBlank(src))
            /\ \A k \in 1 .. Len(out.lines) :
                  Len(Tokenize(out.lines[k], ",")) = Len(src.lines[1])

\* A two-column source with a data row has been converted, one of its cells
\* holding a comma and one a number not in canonical form.
C7_Witness ==
    /\ Converted /\ WellFormed(src) /\ ioRet.status = "ok"
    /\ Len(src.lines) >= 2 /\ Len(src.lines[1]) = 2
    /\ \E k \in 2 .. Len(src.lines) :
          src.lines[k][1].text = "a,b" /\ src.lines[k][2].text = "07"

ReadErrors == {"FileNotFoundError", "EmptyDataError", "ParserError"}

\* C10: a missing source fails the converter, and when the converter fails
\* on reading the source (missing, empty or with a line too long) the caller
\* gets that error and the save path is as it was: no directory made, no
\* file made or changed, nothing printed.
C10_ReadFailureNoEffect ==
    Converted =>
        /\ ~src.exists => ioRet.status = "FileNotFoundError"
        /\ read_csv(src, "|").status # "ok" =>
              /\ ioRet.status = read_csv(src, "|").status
              /\ ioRet.status \in ReadErrors
              /\ fsDir = ioRet.before.dir
              /\ fsFiles = ioRet.before.files
              /\ ~ioRet.printed

\* The converter has failed on a source with a line too long, with no save
\* directory yet and the process able to make one.
C10_Witness ==
    /\ Converted /\ ioRet.status = "ParserError"
    /\ ioRet.before.dir = "absent" /\ fsWritable

====
